---- MODULE Spec2Model ----
(***************************************************************************)
(* Model of src/main.py: a FastAPI service that waits for a Kafka cluster  *)
(* (wait_for_kafka), provisions two topics (create_kafka_topics), and then *)
(* serves POST /log-test, which publishes one JSON log entry to the topic  *)
(* "api-logs", while the handler consume is subscribed to "test-topic".    *)
(*                                                                         *)
(* Every await of the source is a step of the model.  What the Kafka       *)
(* client library answers at an await (a call returns, raises              *)
(* KafkaConnectionError, raises something else) is chosen by the           *)
(* environment.  The locals of a coroutine live from its call to the step  *)
(* in which lifespan resumes after it.                                     *)
(***************************************************************************)
EXTENDS Integers, Sequences, FiniteSets, TLC

\* ---- bounds of the model ----
\* largest retry budget max_retries tried
MaxRetries == 3
\* number of times the process is started (the broker outlives the process)
MaxRuns == 2
\* number of POST /log-test requests per process run
MaxRequests == 2
\* number of messages other producers put on "test-topic"
MaxExternal == 2

\* ---- program constants ----
DeclaredTopics == {"api-logs", "test-topic"}
PublishTopicIsSubscribed == "test-topic"

\* line 100: topic="api-logs"
PublishTopic == "api-logs"
\* line 65: subscriber("test-topic")
SubscribedTopic == "test-topic"
Requests == 1..MaxRequests
\* payloads other producers send to "test-topic"
ExternalPayloads == {<<"a">>, <<"b">>}

\* no request_id
NoId == <<>>

\* no payload
NoPayload == <<>>

\* what a library call answers
CallOutcomes == {"ok", "conn", "other"}

VARIABLES
  run,            \* number of process starts so far
  lsPc,           \* lifespan: notStarted, gate, prov, sleep, ready, failed
  gateResult,     \* what lifespan saw of wait_for_kafka: none, ok, TimeoutError, Other
  provResult,     \* what lifespan saw of create_kafka_topics: none, ok, raised
  gatePc,         \* wait_for_kafka: idle, loop, starting, stopping, sleeping, returned, raised
  maxRetries,     \* parameter max_retries
  attempt,        \* number of loop iterations begun (producers constructed)
  outcomes,       \* per finished attempt: [start |-> .., stop |-> ..]
  sleeps,         \* number of asyncio.sleep(retry_interval) calls
  wakes,          \* number of them that have returned
  gateFailLogs,   \* "Kafka not ready" lines printed (line 33)
  gateErr,        \* exception leaving wait_for_kafka: none, TimeoutError, Other
  provPc,         \* create_kafka_topics: idle, construct, start, create, finally, returned, raised
  adminBound,     \* local admin_client is assigned
  adminOpen,      \* administrative connections currently open
  adminOpens,     \* administrative connections opened by this call
  adminCloses,    \* admin_client.close() calls of this call
  provExc,        \* exception caught inside the call: none, exists, other
  provStep,       \* statement that raised it: none, construct, start, create
  provErr,        \* exception leaving the call: none, UnboundLocalError
  provLogs,       \* lines printed by the except clauses (lines 49 and 51)
  brokerTopics,   \* topics that exist on the broker
  provCalls,      \* calls of create_kafka_topics that have ended, over all runs
  topicsAfterPrev, \* brokerTopics when the latest of them ended
  apiLogs,        \* payloads the broker took on "api-logs" since the process started
  testTopic,      \* messages put on "test-topic" since the process started, in order
  extCount,       \* number of them (all come from other producers)
  reqPc,          \* per request of log_test: idle, sleeping, publishing, returned, failed
  reqEntry,       \* per request: request_id of its log_entry (NoId: not built)
  reqPayload,     \* per request: the payload it handed to publish (NoPayload: none)
  pubAttempts,    \* per request: calls of kafka_router.broker.publish
  pubFailed,      \* per request: a call of publish raised
  response,       \* per request: request_id of the returned body (NoId: none)
  subLive,        \* the subscription of consume is running
  lenAtLive,      \* length of "test-topic" when the subscription began
  offset,         \* position in "test-topic" of the subscription
  received,       \* messages passed to consume, in order
  handlerResults  \* per message passed to consume: ok, threw

procVars == <<run, lsPc, gateResult, provResult>>
gateVars == <<gatePc, maxRetries, attempt, outcomes, sleeps, wakes, gateFailLogs, gateErr>>
provVars == <<provPc, adminBound, adminOpen, adminOpens, adminCloses, provExc, provStep, provErr, provLogs>>
brokerVars == <<brokerTopics, provCalls, topicsAfterPrev>>
logVars == <<apiLogs, testTopic, extCount>>
reqVars == <<reqPc, reqEntry, reqPayload, pubAttempts, pubFailed, response>>
subVars == <<subLive, lenAtLive, offset, received, handlerResults>>
vars == <<procVars, gateVars, provVars, brokerVars, logVars, reqVars, subVars>>

\* a call of wait_for_kafka has ended: its locals are gone
GateFrameReset ==
  /\ gatePc' = "idle"
  /\ maxRetries' = 0
  /\ attempt' = 0
  /\ outcomes' = <<>>
  /\ sleeps' = 0
  /\ wakes' = 0
  /\ gateFailLogs' = 0
  /\ gateErr' = "none"

\* a call of create_kafka_topics has ended: its locals are gone
ProvFrameReset ==
  /\ provPc' = "idle"
  /\ adminBound' = FALSE
  /\ adminOpen' = 0
  /\ adminOpens' = 0
  /\ adminCloses' = 0
  /\ provExc' = "none"
  /\ provStep' = "none"
  /\ provErr' = "none"
  /\ provLogs' = 0

Init ==
  /\ run = 1
  /\ lsPc = "notStarted"
  /\ gateResult = "none"
  /\ provResult = "none"
  /\ gatePc = "idle"
  /\ maxRetries = 0
  /\ attempt = 0
  /\ outcomes = <<>>
  /\ sleeps = 0
  /\ wakes = 0
  /\ gateFailLogs = 0
  /\ gateErr = "none"
  /\ provPc = "idle"
  /\ adminBound = FALSE
  /\ adminOpen = 0
  /\ adminOpens = 0
  /\ adminCloses = 0
  /\ provExc = "none"
  /\ provStep = "none"
  /\ provErr = "none"
  /\ provLogs = 0
  /\ brokerTopics = {}
  /\ provCalls = 0
  /\ topicsAfterPrev = {}
  /\ apiLogs = {}
  /\ testTopic = <<>>
  /\ extCount = 0
  /\ reqPc = [r \in Requests |-> "idle"]
  /\ reqEntry = [r \in Requests |-> NoId]
  /\ reqPayload = [r \in Requests |-> NoPayload]
  /\ pubAttempts = [r \in Requests |-> 0]
  /\ pubFailed = [r \in Requests |-> FALSE]
  /\ response = [r \in Requests |-> NoId]
  /\ subLive = FALSE
  /\ lenAtLive = 0
  /\ offset = 0
  /\ received = <<>>
  /\ handlerResults = <<>>

\* ---- wait_for_kafka (src/main.py:22-35) ----

LoopHasNextOffByOne(a, n) == a <= n

\* for attempt in range(max_retries): a further iteration exists
LoopHasNext(a, n) == a < n

\* line 25: the loop head.  Either the next iteration constructs a producer
\* and awaits producer.start(), or the loop is exhausted and line 35 raises.
wait_for_kafka_loop ==
  /\ gatePc = "loop"
  /\ IF LoopHasNext(attempt, maxRetries)
       THEN /\ attempt' = attempt + 1
            /\ gatePc' = "starting"
            /\ gateErr' = gateErr
       ELSE /\ gatePc' = "raised"
            /\ gateErr' = "TimeoutError"
            /\ attempt' = attempt
  /\ UNCHANGED <<maxRetries, outcomes, sleeps, wakes, gateFailLogs>>
  /\ UNCHANGED <<procVars, provVars, brokerVars, logVars, reqVars, subVars>>

OnRaiseNoSleep(o) == IF o = "conn" THEN "loop" ELSE "raised"

OnRaiseRetriesAll(o) == "sleeping"

\* where control goes when an awaited call of the try body raises: lines
\* 32-34 catch KafkaConnectionError alone, print and sleep
OnRaise(o) == IF o = "conn" THEN "sleeping" ELSE "raised"

\* line 33: the handler prints one line for the exception it caught
GateLogLines(o) == IF o = "conn" THEN 1 ELSE 0

\* line 28: await producer.start() answers
wait_for_kafka_started ==
  /\ gatePc = "starting"
  /\ \E o \in CallOutcomes :
       IF o = "ok"
         THEN /\ gatePc' = "stopping"
              /\ UNCHANGED <<outcomes, sleeps, gateFailLogs, gateErr>>
         ELSE /\ gatePc' = OnRaise(o)
              /\ outcomes' = Append(outcomes, [start |-> o, stop |-> "none"])
              /\ gateFailLogs' = gateFailLogs + GateLogLines(o)
              /\ sleeps' = IF gatePc' = "sleeping" THEN sleeps + 1 ELSE sleeps
              /\ gateErr' = IF o = "conn" THEN gateErr ELSE "Other"
  /\ UNCHANGED <<maxRetries, attempt, wakes>>
  /\ UNCHANGED <<procVars, provVars, brokerVars, logVars, reqVars, subVars>>

AfterStopOkFallsThrough == "loop"

\* lines 30-31: print("Kafka is ready!"); return
AfterStopOk == "returned"

\* line 29: await producer.stop() answers
wait_for_kafka_stopped ==
  /\ gatePc = "stopping"
  /\ \E o \in CallOutcomes :
       /\ outcomes' = Append(outcomes, [start |-> "ok", stop |-> o])
       /\ gatePc' = IF o = "ok" THEN AfterStopOk ELSE OnRaise(o)
       /\ gateFailLogs' = gateFailLogs + GateLogLines(o)
       /\ sleeps' = IF gatePc' = "sleeping" THEN sleeps + 1 ELSE sleeps
       /\ gateErr' = IF o = "other" THEN "Other" ELSE gateErr
  /\ UNCHANGED <<maxRetries, attempt, wakes>>
  /\ UNCHANGED <<procVars, provVars, brokerVars, logVars, reqVars, subVars>>

\* line 34: await asyncio.sleep(retry_interval) returns
wait_for_kafka_woke ==
  /\ gatePc = "sleeping"
  /\ gatePc' = "loop"
  /\ wakes' = wakes + 1
  /\ UNCHANGED <<maxRetries, attempt, outcomes, sleeps, gateFailLogs, gateErr>>
  /\ UNCHANGED <<procVars, provVars, brokerVars, logVars, reqVars, subVars>>

\* ---- lifespan (src/main.py:55-60) ----

\* line 57: lifespan calls wait_for_kafka.  The source calls it with the
\* default budget; the budget is drawn here so that every N is covered.
lifespan_start ==
  /\ lsPc = "notStarted"
  /\ lsPc' = "gate"
  /\ gatePc' = "loop"
  /\ maxRetries' \in 0..MaxRetries
  /\ UNCHANGED <<attempt, outcomes, sleeps, wakes, gateFailLogs, gateErr>>
  /\ UNCHANGED <<run, gateResult, provResult>>
  /\ UNCHANGED <<provVars, brokerVars, logVars, reqVars, subVars>>

NotAwaited(pc) == pc # "idle"

\* await: the caller resumes only when the awaited coroutine has finished
Awaited(pc) == pc \in {"returned", "raised"}

ProceedsAnyway(g) == "prov"

\* lines 57-58: an exception of wait_for_kafka leaves lifespan before line 58
LifespanAfterGate(g) == IF g = "returned" THEN "prov" ELSE "failed"

\* line 57 resumes: wait_for_kafka returned (line 58 calls
\* create_kafka_topics, whose first statement constructs the admin client)
\* or raised (the exception leaves lifespan, startup fails).
lifespan_gate_done ==
  /\ lsPc = "gate"
  /\ Awaited(gatePc)
  /\ gateResult' = CASE gatePc = "returned" -> "ok"
                     [] gatePc = "raised" -> gateErr
                     [] OTHER -> "none"
  /\ lsPc' = LifespanAfterGate(gatePc)
  /\ provPc' = IF lsPc' = "prov" THEN "construct" ELSE provPc
  /\ IF gatePc \in {"returned", "raised"}
       THEN GateFrameReset
       ELSE UNCHANGED gateVars
  /\ UNCHANGED <<run, provResult>>
  /\ UNCHANGED <<adminBound, adminOpen, adminOpens, adminCloses, provExc, provStep, provErr, provLogs>>
  /\ UNCHANGED <<brokerVars, logVars, reqVars, subVars>>

\* ---- create_kafka_topics (src/main.py:37-53) ----

HandlerLogLinesSilentExists(exc) == IF exc = "other" THEN 1 ELSE 0

\* lines 49 and 51: each except clause prints one line
HandlerLogLines(exc) == IF exc \in {"exists", "other"} THEN 1 ELSE 0

\* line 40: AIOKafkaAdminClient(...) returns and admin_client is bound, or
\* raises; line 50 catches every Exception and line 51 reports it.
create_kafka_topics_construct ==
  /\ provPc = "construct"
  /\ \E o \in {"ok", "other"} :
       IF o = "ok"
         THEN /\ adminBound' = TRUE
              /\ provPc' = "start"
              /\ UNCHANGED <<provExc, provStep, provLogs>>
         ELSE /\ provExc' = "other"
              /\ provLogs' = provLogs + HandlerLogLines("other")
              /\ provStep' = "construct"
              /\ provPc' = "finally"
              /\ UNCHANGED adminBound
  /\ UNCHANGED <<adminOpen, adminOpens, adminCloses, provErr>>
  /\ UNCHANGED <<procVars, gateVars, brokerVars, logVars, reqVars, subVars>>

\* line 41: await admin_client.start() answers
create_kafka_topics_started ==
  /\ provPc = "start"
  /\ \E o \in {"ok", "other"} :
       IF o = "ok"
         THEN /\ adminOpen' = adminOpen + 1
              /\ adminOpens' = adminOpens + 1
              /\ provPc' = "create"
              /\ UNCHANGED <<provExc, provStep, provLogs>>
         ELSE /\ provExc' = "other"
              /\ provLogs' = provLogs + HandlerLogLines("other")
              /\ provStep' = "start"
              /\ provPc' = "finally"
              /\ UNCHANGED <<adminOpen, adminOpens>>
  /\ UNCHANGED <<adminBound, adminCloses, provErr>>
  /\ UNCHANGED <<procVars, gateVars, brokerVars, logVars, reqVars, subVars>>

\* The broker's answer to one batch: a topic that exists is refused with
\* "already exists" and left alone, a topic that does not exist is created.
BrokerCreate(existing, batch) ==
  [topics |-> existing \cup batch,
   answer |-> IF existing \cap batch # {} THEN "exists" ELSE "created"]

\* line 46: await admin_client.create_topics(...) answers: the broker's
\* answer (TopicAlreadyExistsError is caught at line 48), or another
\* failure, caught at line 50, with nothing created.
create_kafka_topics_created ==
  /\ provPc = "create"
  /\ \/ LET b == BrokerCreate(brokerTopics, DeclaredTopics) IN
          /\ brokerTopics' = b.topics
          /\ provExc' = IF b.answer = "exists" THEN "exists" ELSE "none"
          /\ provStep' = IF b.answer = "exists" THEN "create" ELSE "none"
     \/ /\ provExc' = "other"
        /\ provStep' = "create"
        /\ UNCHANGED brokerTopics
  /\ provLogs' = provLogs + HandlerLogLines(provExc')
  /\ provPc' = "finally"
  /\ UNCHANGED <<adminBound, adminOpen, adminOpens, adminCloses, provErr>>
  /\ UNCHANGED <<procVars, gateVars, provCalls, topicsAfterPrev, logVars, reqVars, subVars>>

SwallowsOnlyOther(exc) == exc \in {"none", "other"}

\* lines 48-51: both except clauses end the exception
Swallows(exc) == exc \in {"none", "exists", "other"}

ClosesOnlyOnSuccess(exc) == exc = "none"

\* lines 52-53: the finally clause runs whatever happened in the try
ClosesInFinally(exc) == TRUE

\* line 53: await admin_client.close().  With admin_client unbound the
\* name lookup raises UnboundLocalError, which leaves the call.
create_kafka_topics_finally ==
  /\ provPc = "finally"
  /\ IF ~ClosesInFinally(provExc)
       THEN /\ provPc' = "returned"
            /\ UNCHANGED <<adminOpen, adminCloses, provErr>>
       ELSE IF ~adminBound
         THEN /\ provPc' = "raised"
              /\ provErr' = "UnboundLocalError"
              /\ UNCHANGED <<adminOpen, adminCloses>>
         ELSE /\ adminOpen' = 0
              /\ adminCloses' = adminCloses + 1
              /\ provPc' = IF Swallows(provExc) THEN "returned" ELSE "raised"
              /\ provErr' = IF Swallows(provExc) THEN provErr ELSE "TopicAlreadyExistsError"
  /\ UNCHANGED <<adminBound, adminOpens, provExc, provStep, provLogs>>
  /\ UNCHANGED <<procVars, gateVars, brokerVars, logVars, reqVars, subVars>>

\* line 58 resumes: create_kafka_topics returned (line 59 sleeps) or raised
lifespan_prov_done ==
  /\ lsPc = "prov"
  /\ Awaited(provPc)
  /\ provResult' = IF provPc = "returned" THEN "ok" ELSE "raised"
  /\ lsPc' = IF provPc = "returned" THEN "sleep" ELSE "failed"
  /\ ProvFrameReset
  /\ provCalls' = provCalls + 1
  /\ topicsAfterPrev' = brokerTopics
  /\ UNCHANGED <<run, gateResult, brokerTopics>>
  /\ UNCHANGED <<gateVars, logVars, reqVars, subVars>>

\* line 59: await asyncio.sleep(3) returns and line 60 yields: startup is
\* complete and the application serves requests
lifespan_yield ==
  /\ lsPc = "sleep"
  /\ lsPc' = "ready"
  /\ UNCHANGED <<run, gateResult, provResult>>
  /\ UNCHANGED <<gateVars, provVars, brokerVars, logVars, reqVars, subVars>>

\* line 63: the process is started again (after a failed startup, or after
\* it served).  The topics of the broker stay; the messages put on them
\* before this start are not read by the new process (its subscription
\* starts at the end of the topic) and are left out.
process_restart ==
  /\ lsPc \in {"failed", "ready"}
  /\ run < MaxRuns
  /\ run' = run + 1
  /\ lsPc' = "notStarted"
  /\ gateResult' = "none"
  /\ provResult' = "none"
  /\ GateFrameReset
  /\ ProvFrameReset
  /\ reqPc' = [r \in Requests |-> "idle"]
  /\ reqEntry' = [r \in Requests |-> NoId]
  /\ reqPayload' = [r \in Requests |-> NoPayload]
  /\ pubAttempts' = [r \in Requests |-> 0]
  /\ pubFailed' = [r \in Requests |-> FALSE]
  /\ response' = [r \in Requests |-> NoId]
  /\ subLive' = FALSE
  /\ lenAtLive' = 0
  /\ offset' = 0
  /\ received' = <<>>
  /\ handlerResults' = <<>>
  /\ apiLogs' = {}
  /\ testTopic' = <<>>
  /\ extCount' = 0
  /\ UNCHANGED brokerVars

\* ---- log_test (src/main.py:79-103) ----

\* line 99: json.dumps(log_entry, separators=(',', ':')), restricted to the
\* two fields the model carries
JsonDumps(e) ==
  <<"{", "status_code", ":", e.status_code, ",", "request_id", ":", e.request_id, "}">>

\* the request_id field of a payload produced by JsonDumps
PayloadRequestId(p) == p[8]

\* lines 80-84: a POST /log-test arrives (requests are served only between
\* the yield of lifespan and shutdown) and awaits asyncio.sleep(0.05).
\* Requests are numbered in the order of their arrival.
log_test_begin(r) ==
  /\ lsPc = "ready"
  /\ reqPc[r] = "idle"
  /\ \A q \in Requests : q < r => reqPc[q] # "idle"
  /\ reqPc' = [reqPc EXCEPT ![r] = "sleeping"]
  /\ UNCHANGED <<reqEntry, reqPayload, pubAttempts, pubFailed, response>>
  /\ UNCHANGED <<procVars, gateVars, provVars, brokerVars, logVars, subVars>>

\* line 93: uuid4() gives a value no other call gives; the value is named
\* after the run and the request that drew it
Uuid4(r) == <<run, r>>

\* lines 86-99: the sleep returns, log_entry is built with a fresh uuid4,
\* serialized, and kafka_router.broker.publish is called with the payload
log_test_publish(r) ==
  /\ reqPc[r] = "sleeping"
  /\ reqEntry' = [reqEntry EXCEPT ![r] = Uuid4(r)]
  /\ reqPayload' = [reqPayload EXCEPT ![r] =
                      JsonDumps([status_code |-> 200, request_id |-> reqEntry'[r]])]
  /\ pubAttempts' = [pubAttempts EXCEPT ![r] = @ + 1]
  /\ reqPc' = [reqPc EXCEPT ![r] = "publishing"]
  /\ UNCHANGED <<pubFailed, response>>
  /\ UNCHANGED <<procVars, gateVars, provVars, brokerVars, logVars, subVars>>

RetriesOnPublishFailure == "sleeping"

\* line 98: nothing catches an exception of publish; it leaves log_test
OnPublishFailure == "failed"

ResponseIdShared(r) ==
  LET built == {q \in Requests : reqEntry[q] # NoId}
  IN  reqEntry[CHOOSE q \in built : \A p \in built : p <= q]

\* line 103: log_entry["request_id"], log_entry being a local of the call
ResponseId(r) == reqEntry[r]

\* the broker puts a message on the topic it is published to: "api-logs"
\* after the publish of payload p to topic t
ApiLogsAfter(t, p) == IF t = "api-logs" THEN apiLogs \cup {p} ELSE apiLogs

\* "test-topic" after the publish of payload p to topic t
TestTopicAfter(t, p) == IF t = "test-topic" THEN Append(testTopic, p) ELSE testTopic

\* lines 98-103: the publish returns (the broker holds the payload on
\* "api-logs", in one of its three partitions: the topic keeps no order
\* between payloads; line 103 returns the body) or raises
log_test_published(r) ==
  /\ reqPc[r] = "publishing"
  /\ \/ /\ apiLogs' = ApiLogsAfter(PublishTopic, reqPayload[r])
        /\ testTopic' = TestTopicAfter(PublishTopic, reqPayload[r])
        /\ reqPc' = [reqPc EXCEPT ![r] = "returned"]
        /\ response' = [response EXCEPT ![r] = ResponseId(r)]
        /\ UNCHANGED pubFailed
     \/ /\ reqPc' = [reqPc EXCEPT ![r] = OnPublishFailure]
        /\ pubFailed' = [pubFailed EXCEPT ![r] = TRUE]
        /\ UNCHANGED <<apiLogs, testTopic, response>>
  /\ UNCHANGED <<reqEntry, reqPayload, pubAttempts>>
  /\ UNCHANGED extCount
  /\ UNCHANGED <<procVars, gateVars, provVars, brokerVars, subVars>>

\* ---- consume (src/main.py:65-67) and its subscription ----

\* another producer puts a message on "test-topic"
external_publish ==
  /\ extCount < MaxExternal
  /\ extCount' = extCount + 1
  /\ \E p \in ExternalPayloads : testTopic' = Append(testTopic, p)
  /\ UNCHANGED apiLogs
  /\ UNCHANGED <<procVars, gateVars, provVars, brokerVars, reqVars, subVars>>

\* lines 65 and 106: the router starts the subscription of consume once the
\* application has started.  The subscriber is declared with the topic name
\* alone (no consumer group, no offset option): it starts at the end of the
\* topic.
subscriber_start ==
  /\ lsPc = "ready"
  /\ ~subLive
  /\ subLive' = TRUE
  /\ offset' = Len(testTopic)
  /\ lenAtLive' = Len(testTopic)
  /\ UNCHANGED <<received, handlerResults>>
  /\ UNCHANGED <<procVars, gateVars, provVars, brokerVars, logVars, reqVars>>

NextMessageIsLatest == testTopic[Len(testTopic)]

\* the message the subscription passes to the handler next: the first one
\* it has not passed yet, as the broker holds it
NextMessage == testTopic[offset + 1]

HandlerErrorEndsSubscription(o) == o = "ok"

\* an exception of the handler is caught where the handler is called
SubscriptionSurvives(o) == TRUE

\* lines 66-67: the next message of "test-topic" is passed to consume, which
\* prints it; the call returns or throws
consume ==
  /\ subLive
  /\ offset < Len(testTopic)
  /\ offset' = offset + 1
  /\ received' = Append(received, NextMessage)
  /\ \E o \in {"ok", "threw"} :
       /\ handlerResults' = Append(handlerResults, o)
       /\ subLive' = SubscriptionSurvives(o)
  /\ UNCHANGED lenAtLive
  /\ UNCHANGED <<procVars, gateVars, provVars, brokerVars, logVars, reqVars>>

Next ==
  \/ lifespan_start
  \/ wait_for_kafka_loop
  \/ wait_for_kafka_started
  \/ wait_for_kafka_stopped
  \/ wait_for_kafka_woke
  \/ lifespan_gate_done
  \/ create_kafka_topics_construct
  \/ create_kafka_topics_started
  \/ create_kafka_topics_created
  \/ create_kafka_topics_finally
  \/ lifespan_prov_done
  \/ lifespan_yield
  \/ process_restart
  \/ \E r \in Requests : log_test_begin(r)
  \/ \E r \in Requests : log_test_publish(r)
  \/ \E r \in Requests : log_test_published(r)
  \/ external_publish
  \/ subscriber_start
  \/ consume

Spec == Init /\ [][Next]_vars

\* the subscription is a task of the event loop that polls for as long as
\* it runs: a message it can pass to consume is passed in the end
FairSpec == Init /\ [][Next]_vars /\ WF_vars(consume)

\* ---- properties ----

\* wait_for_kafka has ended (returned or raised) and lifespan has not resumed
GateEnded == gatePc \in {"returned", "raised"}

\* every attempt made so far ended with KafkaConnectionError
AllAttemptsFailedConn ==
  \A i \in 1..Len(outcomes) :
     outcomes[i].start = "conn" \/ outcomes[i].stop = "conn"

\* attempt k returned from both producer.start() and producer.stop()
AttemptSucceeded(k) == outcomes[k].start = "ok" /\ outcomes[k].stop = "ok"

\* C1: with retry budget max_retries = N, when every connection attempt
\* fails with a connection error the gate never makes more than N attempts,
\* and it ends only after exactly N attempts, by raising TimeoutError.
C1_ExactlyNAttemptsThenTimeout ==
  AllAttemptsFailedConn =>
    /\ attempt <= maxRetries
    /\ GateEnded =>
         /\ attempt = maxRetries
         /\ Len(outcomes) = maxRetries
         /\ gatePc = "raised"
         /\ gateErr = "TimeoutError"

C1_Witness ==
  /\ gatePc = "raised"
  /\ gateErr = "TimeoutError"
  /\ maxRetries = MaxRetries
  /\ attempt = MaxRetries
  /\ Len(outcomes) = MaxRetries
  /\ AllAttemptsFailedConn

\* C2: when attempt k is the first that succeeds, the gate has returned
\* right after it: k attempts were made and no more, the only sleeps are the
\* k - 1 that followed the failures, and no exception leaves the gate.
C2_ReturnsAtFirstSuccess ==
  \A k \in 1..Len(outcomes) :
     AttemptSucceeded(k) =>
       /\ k = Len(outcomes)
       /\ k <= maxRetries
       /\ attempt = k
       /\ sleeps = k - 1
       /\ gatePc = "returned"
       /\ gateErr = "none"

C2_Witness ==
  /\ gatePc = "returned"
  /\ Len(outcomes) >= 2
  /\ Len(outcomes) < maxRetries
  /\ AttemptSucceeded(Len(outcomes))

\* C3: once wait_for_kafka has raised TimeoutError, lifespan fails without
\* calling create_kafka_topics and without reaching its yield: no request is
\* handled and no subscription runs in that process run.
C3_GateTimeoutIsFatal ==
  (gateResult = "TimeoutError" \/ (gatePc = "raised" /\ gateErr = "TimeoutError")) =>
    /\ lsPc \in {"gate", "failed"}
    /\ gateResult = "TimeoutError" => lsPc = "failed"
    /\ provPc = "idle"
    /\ provResult = "none"
    /\ \A r \in Requests : reqPc[r] = "idle"
    /\ ~subLive

C3_Witness == gateResult = "TimeoutError" /\ lsPc = "failed"

\* C4: once the gate has succeeded, no failure inside create_kafka_topics
\* leaves the call, and the bootstrap never fails.
C4_ProvisionerNeverAbortsBootstrap ==
  gateResult = "ok" => (provPc # "raised" /\ lsPc # "failed")

\* C5: when create_kafka_topics ends, by return or by exception, no
\* administrative connection is open and every one the call opened has been
\* closed exactly once; none is open outside a call.
C5_AdminConnectionReleased ==
  /\ provPc \in {"returned", "raised"} =>
       /\ adminOpen = 0
       /\ adminOpens > 0 => adminCloses = adminOpens
  /\ adminCloses <= 1
  /\ provPc = "idle" => adminOpen = 0

C5_Witness ==
  /\ provPc = "returned"
  /\ provExc = "other"
  /\ provStep = "create"
  /\ adminOpens = 1
  /\ adminCloses = 1
  /\ adminOpen = 0

\* C6: a later call of create_kafka_topics that the broker answers with
\* "topic already exists" ends by returning, and leaves on the broker
\* exactly the topics that were there when the call before it ended.
C6_ProvisioningIdempotent ==
  (provCalls >= 1 /\ provExc = "exists" /\ provPc \in {"finally", "returned", "raised"}) =>
    /\ provPc # "raised"
    /\ provErr = "none"
    /\ brokerTopics = topicsAfterPrev
    /\ brokerTopics = DeclaredTopics

C6_Witness ==
  /\ provCalls >= 1
  /\ provExc = "exists"
  /\ provPc = "returned"
  /\ brokerTopics = topicsAfterPrev

\* C7: the bootstrap is sequential.  create_kafka_topics runs only after
\* wait_for_kafka has returned, the two never run at the same time, the
\* yield is reached only after both have returned, and requests and the
\* subscription run only after the yield.
C7_BootstrapSequential ==
  /\ gatePc # "idle" => (lsPc = "gate" /\ provPc = "idle" /\ provResult = "none")
  /\ provPc # "idle" => (lsPc = "prov" /\ gatePc = "idle" /\ gateResult = "ok")
  /\ lsPc \in {"sleep", "ready"} =>
       (gateResult = "ok" /\ provResult = "ok" /\ gatePc = "idle" /\ provPc = "idle")
  /\ (subLive \/ \E r \in Requests : reqPc[r] # "idle") => lsPc = "ready"

C7_Witness ==
  /\ lsPc = "ready"
  /\ gateResult = "ok"
  /\ provResult = "ok"
  /\ \E r \in Requests : reqPc[r] = "returned"

\* C8: a request of log_test calls publish at most once; when the call
\* raises, the exception leaves log_test and no body is returned.
C8_PublishFailureSurfaces ==
  \A r \in Requests :
     /\ pubAttempts[r] <= 1
     /\ pubFailed[r] => (reqPc[r] = "failed" /\ response[r] = NoId)
     /\ response[r] # NoId => (reqPc[r] = "returned" /\ ~pubFailed[r])

C8_Witness ==
  \E r \in Requests :
     pubFailed[r] /\ reqPc[r] = "failed" /\ pubAttempts[r] = 1

\* C9: when consume has thrown on a message, the subscription is still
\* running, and the message passed to consume after it is the one that
\* follows it on the topic.
C9_HandlerErrorKeepsSubscription ==
  \A i \in 1..Len(handlerResults) :
     handlerResults[i] = "threw" =>
       /\ subLive
       /\ Len(received) > i => received[i + 1] = testTopic[lenAtLive + i + 1]

C9_Witness ==
  \E i \in 1..Len(handlerResults) :
     /\ handlerResults[i] = "threw"
     /\ Len(received) > i
     /\ subLive

\* message i of "test-topic" was put there while the subscription ran
PublishedWhileLive(i) == subLive /\ lenAtLive < i /\ i <= Len(testTopic)

\* message i of "test-topic" has been passed to consume, unchanged
DeliveredUnchanged(i) ==
  /\ lenAtLive < i
  /\ i - lenAtLive <= Len(received)
  /\ received[i - lenAtLive] = testTopic[i]

ProducerStopped(i) == outcomes[i].stop = "ok"

\* C11: when wait_for_kafka has ended, by returning or by TimeoutError,
\* every producer on which it called start() has been stopped, also the
\* producers of the attempts that failed with a connection error.
C11_EveryProducerStopped ==
  (gatePc = "returned" \/ (gatePc = "raised" /\ gateErr = "TimeoutError")) =>
    \A i \in 1..Len(outcomes) : ProducerStopped(i)

\* C12: however the requests interleave, a request that has returned its
\* body called publish exactly once, the call had returned (the broker holds
\* the payload), and the request_id of the body is the one inside the
\* payload of that request, and inside no other request's payload.
C12_ResponseMatchesOwnPublish ==
  \A r \in Requests :
     response[r] # NoId =>
       /\ reqPc[r] = "returned"
       /\ pubAttempts[r] = 1
       /\ ~pubFailed[r]
       /\ reqPayload[r] \in apiLogs
       /\ response[r] = PayloadRequestId(reqPayload[r])
       /\ \A q \in Requests \ {r} :
            reqPayload[q] # NoPayload => response[r] # PayloadRequestId(reqPayload[q])

C12_Witness ==
  /\ \A r \in Requests : reqPc[r] = "returned" /\ response[r] # NoId
  /\ Cardinality(apiLogs) = MaxRequests

\* attempts that ended with a KafkaConnectionError, which lines 32-34 caught
CaughtAttempts ==
  {i \in 1..Len(outcomes) : outcomes[i].start = "conn" \/ outcomes[i].stop = "conn"}

\* C13: every exception caught in wait_for_kafka has its log line when the
\* handler goes on to sleep, and every exception caught in
\* create_kafka_topics has its log line when the try statement is left.
C13_CaughtErrorsAreLogged ==
  /\ gateFailLogs = Cardinality(CaughtAttempts)
  /\ provPc \in {"finally", "returned", "raised"} =>
       provLogs = (IF provExc \in {"exists", "other"} THEN 1 ELSE 0)

C13_Witness ==
  /\ provPc = "returned"
  /\ provExc = "exists"
  /\ provLogs = 1

\* C14: wait_for_kafka sleeps after every failed attempt, the last of the
\* budget included: when all N attempts have failed, TimeoutError is raised
\* with N sleeps begun and N sleeps returned.
C14_SleepsAfterEveryFailure ==
  /\ sleeps = Cardinality(CaughtAttempts)
  /\ wakes = (IF gatePc = "sleeping" THEN sleeps - 1 ELSE sleeps)
  /\ (gatePc = "raised" /\ gateErr = "TimeoutError" /\ AllAttemptsFailedConn) =>
       (sleeps = maxRetries /\ wakes = maxRetries)

C14_Witness ==
  /\ gatePc = "raised"
  /\ gateErr = "TimeoutError"
  /\ maxRetries >= 2
  /\ sleeps = maxRetries
  /\ wakes = maxRetries
  /\ attempt = maxRetries

\* attempt k ended with an exception other than KafkaConnectionError
AttemptRaisedOther(k) == outcomes[k].start = "other" \/ outcomes[k].stop = "other"

\* C15: an exception of an attempt that is not a connection error leaves
\* wait_for_kafka at once: that attempt is the last, no sleep follows it,
\* the exception is not TimeoutError, whatever budget remains; lifespan
\* then fails without calling create_kafka_topics and without its yield.
C15_OtherErrorLeavesAtOnce ==
  /\ \A k \in 1..Len(outcomes) :
        AttemptRaisedOther(k) =>
          /\ k = Len(outcomes)
          /\ attempt = k
          /\ sleeps = k - 1
          /\ gatePc = "raised"
          /\ gateErr = "Other"
  /\ gateResult = "Other" =>
       /\ lsPc = "failed"
       /\ provPc = "idle"
       /\ provResult = "none"
       /\ ~subLive
       /\ \A r \in Requests : reqPc[r] = "idle"

C15_Witness ==
  /\ gatePc = "raised"
  /\ gateErr = "Other"
  /\ Len(outcomes) = 2
  /\ attempt < maxRetries
  /\ sleeps = 1

\* the payloads the requests of log_test have handed to publish
LogTestPayloads == {reqPayload[r] : r \in Requests} \ {NoPayload}

\* C16: log_test publishes to "api-logs" and consume is subscribed to
\* "test-topic": a payload of log_test that the broker took is on
\* "api-logs" and never on "test-topic", and every message passed to
\* consume is a message of "test-topic" and no payload of log_test.
C16_PublishAndSubscribeTopicsDiffer ==
  /\ \A r \in Requests : response[r] # NoId => reqPayload[r] \in apiLogs
  /\ \A i \in 1..Len(testTopic) : testTopic[i] \notin LogTestPayloads
  /\ \A i \in 1..Len(received) :
        /\ received[i] = testTopic[lenAtLive + i]
        /\ received[i] \notin LogTestPayloads

C16_Witness ==
  /\ \E r \in Requests : response[r] # NoId /\ reqPayload[r] \in apiLogs
  /\ Len(received) >= 1
  /\ subLive

====
